---- MODULE Spec2Model ----
(***************************************************************************)
(* Model of capa's static feature extractors:                              *)
(*   capa/features/extractors/dnfile/extractor.py  (managed, .NET)         *)
(*   capa/features/extractors/viv/extractor.py     (native, vivisect)      *)
(*                                                                         *)
(* Spec      : one extractor instance (either backend) and the calls a     *)
(*             driver makes on it: get_functions (a generator, modelled    *)
(*             statement by statement), the block and instruction walkers, *)
(*             feature extraction at basic block scope.                    *)
(* SpecCache : construction of DnFileFeatureExtractorCache and its five    *)
(*             lookups.                                                    *)
(***************************************************************************)
EXTENDS Integers, Sequences, FiniteSets, TLC

VARIABLES
    backend,     \* "dnfile" | "viv": which extractor class the instance is
    sample,      \* what the analysis library returns for the loaded sample
    pc,          \* position of the current get_functions generator
    gen,         \* number of get_functions() calls made so far
    methods,     \* dnfile: keys of the local dict `methods` in insertion order
                 \* viv: the list sorted(self.vw.getFunctions())
    calls_to,    \* handle id -> fh.ctx["calls_to"]
    calls_from,  \* handle id -> fh.ctx["calls_from"]
    cache,       \* viv: get_functions call -> keys of its local dict `cache`
    i,           \* index of the running for loop over bodies / methods
    j,           \* index of the inner for loop over instructions
    yielded,     \* handle ids the driver has received, oldest first
    failed,      \* the scope whose decoding raised, or None
    walked,      \* the driver's latest walker call: the address of the handle
                 \* it was given and what it produced
    metadata,    \* token cache: rows the dnfile helpers yield, in code order
    tpc,         \* token cache: "build" | "ready"
    tk,          \* token cache: index of the next row to store
    tcache,      \* token cache: category -> (token -> symbol)
    lookup       \* token cache: the latest get_* call and what it returned

vars == <<backend, sample, pc, gen, methods, calls_to, calls_from, cache, i, j,
          yielded, failed, walked, metadata, tpc, tk, tcache, lookup>>

extractorVars == <<backend, sample, pc, gen, methods, calls_to, calls_from,
                   cache, i, j, yielded, failed, walked>>

cacheVars == <<metadata, tpc, tk, tcache, lookup>>

----------------------------------------------------------------------------
(* Bounds of the model *)

\* instructions in one sample, over all its functions
MaxInsns == 2
\* functions vivisect reports for a native sample
MaxFuncs == 2
\* get_functions() calls the driver makes on one extractor
MaxCalls == 2
\* rows the metadata helpers yield, over all five categories
MaxSyms == 2

----------------------------------------------------------------------------
(* Generic helpers *)

Range(s) == {s[k] : k \in 1..Len(s)}

SeqsUpTo(S, n) == UNION {[1..k -> S] : k \in 0..n}

NoDuplicates(s) == \A a, b \in 1..Len(s) : s[a] = s[b] => a = b

NonDecreasing(s, LessEq(_, _)) ==
    \A k \in 1..(Len(s) - 1) : LessEq(s[k], s[k + 1])

RECURSIVE Flatten(_)
Flatten(ss) == IF ss = <<>> THEN <<>> ELSE Head(ss) \o Flatten(Tail(ss))

\* Optional[...]: None is the empty sequence, a value x is <<x>>
None == <<>>
Some(x) == <<x>>

\* no walker has been called since the generator last ran
NoWalk == [fh |-> None, op |-> "none", insns |-> <<>>]

----------------------------------------------------------------------------
(* The managed sample: what get_dotnet_managed_method_bodies(pe) yields *)

\* MethodDef tokens (table 0x06) of the sample, rid 1 and rid 2
MethodDefTokens == {100663297, 100663298}
\* a MemberRef token (table 0x0A): an imported member, never a method body
MemberRefTokens == {167772161}

OperandTokens == MethodDefTokens \cup MemberRefTokens

\* dncil opcodes that carry a method token as operand
CallOpcodes == {"Call", "Callvirt", "Jmp", "Newobj"}
Opcodes == CallOpcodes \cup {"Ldftn"}

InsnKinds == [opcode : Opcodes, operand : OperandTokens]

\* encoded size of an instruction: opcode byte(s) plus a 4 byte token
InsnSize(opcode) == IF opcode = "Ldftn" THEN 6 ELSE 5

\* file offsets dncil assigns while decoding a body linearly
RECURSIVE Decode(_, _)
Decode(kinds, at) ==
    IF kinds = <<>> THEN <<>>
    ELSE <<[opcode |-> Head(kinds).opcode,
            operand |-> Head(kinds).operand,
            offset |-> at]>>
         \o Decode(Tail(kinds), at + InsnSize(Head(kinds).opcode))

\* the k-th body of the file: tiny header (1 byte) or fat header (12 bytes)
MethodBody(k, kinds) ==
    LET off == 8272 + 64 * k
        hdr == IF k % 2 = 1 THEN 1 ELSE 12
    IN  [offset |-> off, header_size |-> hdr,
         instructions |-> Decode(kinds, off + hdr)]

Cuts(L, n) ==
    IF L = 0 THEN (IF n = 0 THEN {<<>>} ELSE {})
    ELSE {c \in [1..L -> 0..n] :
            /\ c[L] = n
            /\ \A k \in 1..(L - 1) : c[k] <= c[k + 1]}

\* bodies in the order the helper yields them; token order is the helper's
DnSample(toks, all, cut) ==
    [k \in 1..Len(toks) |->
        [token |-> toks[k],
         inner |-> MethodBody(k, SubSeq(all, (IF k = 1 THEN 0 ELSE cut[k - 1]) + 1,
                                        cut[k]))]]

\* every sample with at most MaxInsns instructions drawn from `kinds`
IsDnSample(smp, kinds) ==
    \E toks \in SeqsUpTo(MethodDefTokens, Cardinality(MethodDefTokens)) :
        \E all \in SeqsUpTo(kinds, MaxInsns) :
            \E cut \in Cuts(Len(toks), Len(all)) :
                smp = DnSample(toks, all, cut)

----------------------------------------------------------------------------
(* The native sample: what the vivisect workspace returns *)

FuncVas == {4198400 + 256 * k : k \in 1..MaxFuncs}

\* basic blocks of a function, as viv_utils.Function.basic_blocks returns them:
\* sorted by va, each block a linear run of instructions
RECURSIVE Blocks(_, _)
Blocks(va, sizes) ==
    IF sizes = <<>> THEN <<>>
    ELSE <<[va |-> va,
            instructions |-> [k \in 1..Head(sizes) |-> [va |-> va + k - 1]]]>>
         \o Blocks(va + Head(sizes), Tail(sizes))

RECURSIVE Sum(_)
Sum(s) == IF s = <<>> THEN 0 ELSE Head(s) + Sum(Tail(s))

BlockSizes == {s \in SeqsUpTo(1..MaxInsns, MaxInsns) : s # <<>> /\ Sum(s) <= MaxInsns}

\* vw.getFunctions() returns distinct vas in no particular order; every
\* function has at least one block and every block at least one instruction
IsVivSample(smp) ==
    \E vas \in {v \in SeqsUpTo(FuncVas, MaxFuncs) : NoDuplicates(v)} :
        \E shape \in [1..Len(vas) -> BlockSizes] :
            /\ Sum([k \in 1..Len(vas) |-> Sum(shape[k])]) <= MaxInsns
            /\ smp = [k \in 1..Len(vas) |->
                      [va |-> vas[k], basic_blocks |-> Blocks(vas[k], shape[k])]]

----------------------------------------------------------------------------
(* Handles.  A handle id names one FunctionHandle object: the get_functions  *)
(* call that constructed it and its address.  The dnfile extractor builds    *)
(* new set() objects for every handle; the viv extractor builds one dict     *)
(* per call and hands the same dict to every handle of that call.            *)

\* an extractor that keeps one handle per address over all its calls
HandleId_Reused(g, address) == <<1, address>>

\* lines 116-126: every call constructs its own FunctionHandle objects
HandleId(g, address) == <<g, address>>

Address(h) == h[2]

\* fh.inner of a dnfile handle
Inner(token) == sample[CHOOSE k \in 1..Len(sample) : sample[k].token = token].inner

\* fh.inner of a viv handle: viv_utils.Function(self.vw, va)
VivFunction(va) == sample[CHOOSE k \in 1..Len(sample) : sample[k].va = va]

\* fh.ctx["cache"] of a viv handle: the dict of the call that built it
CacheOf(h) == cache[h[1]]

\* the generator is suspended at a yield, finished, or has raised
Suspended ==
    \/ pc \in {"done", "closed", "raised", "asserted"}
    \/ pc = "yield" /\ i > 1

----------------------------------------------------------------------------
(* sorted(): insertion of each element into an ascending list *)

RECURSIVE Insert(_, _)
Insert(x, s) ==
    IF s = <<>> THEN <<x>>
    ELSE IF x <= Head(s) THEN <<x>> \o s
    ELSE <<Head(s)>> \o Insert(x, Tail(s))

RECURSIVE Sorted(_)
Sorted(s) == IF s = <<>> THEN <<>> ELSE Insert(Head(s), Sorted(Tail(s)))

----------------------------------------------------------------------------
(* DnfileFeatureExtractor.get_functions *)

\* a pass that does not treat the tail call opcode as a call
IsCall_NoJmp(opcode) == opcode \in {"Call", "Callvirt", "Newobj"}

\* line 135: the opcodes the call-graph pass looks at
IsCall(opcode) == opcode \in {"Call", "Callvirt", "Jmp", "Newobj"}

\* line 146: dest = methods.get(address)
Dest(meths, address) ==
    IF address \in Range(meths) THEN Some(address) ELSE None

\* a pass that makes up a callee entry for a token that has no body
AddCallsTo_Fabricate(ct, g, meths, address, caller) ==
    IF Dest(meths, address) # None
    THEN [ct EXCEPT ![HandleId(g, address)] = @ \cup {caller}]
    ELSE (HandleId(g, address) :> {caller}) @@ ct

\* lines 146-148: if dest is not None: dest.ctx["calls_to"].add(fh.address)
AddCallsTo(ct, g, meths, address, caller) ==
    LET dest == Dest(meths, address)
    IN  IF dest # None
        THEN [ct EXCEPT ![HandleId(g, dest[1])] = @ \cup {caller}]
        ELSE ct

\* line 152: fh.ctx["calls_from"].add(address)
AddCallsFrom(cf, g, caller, address) ==
    [cf EXCEPT ![HandleId(g, caller)] = @ \cup {address}]

\* a generator that yields the handles as soon as the table is built
PcAfterBuild_Yield == "yield"

\* where the generator goes once the lookup table is complete (line 133)
PcAfterBuild == "scan"

\* calling get_functions(): the generator runs up to its first loop
GetFunctions ==
    /\ pc \in {"idle", "done", "closed", "raised", "asserted"}
    /\ gen < MaxCalls
    /\ gen' = gen + 1
    /\ methods' = <<>>
    /\ pc' = IF backend = "dnfile" THEN "build" ELSE "sort"
    /\ i' = 1
    /\ j' = 1
    /\ failed' = None
    /\ walked' = NoWalk
    /\ UNCHANGED <<backend, sample, calls_to, calls_from, cache, yielded>>
    /\ UNCHANGED cacheVars

\* lines 115-130: one iteration of the loop that fills `methods`
DnBuildMethod ==
    /\ backend = "dnfile" /\ pc = "build" /\ i <= Len(sample)
    /\ LET token == sample[i].token
           h == HandleId(gen, token)
       IN  IF token \in Range(methods)
           THEN \* line 129: assert fh.address not in methods.keys()
                /\ pc' = "asserted"
                /\ UNCHANGED <<methods, calls_to, calls_from, i>>
           ELSE /\ methods' = Append(methods, token)
                /\ calls_from' = (h :> {}) @@ calls_from
                /\ calls_to' = (h :> {}) @@ calls_to
                /\ i' = i + 1
                /\ pc' = pc
    /\ UNCHANGED <<backend, sample, gen, cache, j, yielded, failed, walked>>
    /\ UNCHANGED cacheVars

\* the loop of line 115 is exhausted
DnBuildDone ==
    /\ backend = "dnfile" /\ pc = "build" /\ i > Len(sample)
    /\ pc' = PcAfterBuild
    /\ i' = 1
    /\ j' = 1
    /\ UNCHANGED <<backend, sample, gen, methods, calls_to, calls_from, cache,
                   yielded, failed, walked>>
    /\ UNCHANGED cacheVars

\* lines 134-152: one instruction of the method being scanned
DnScanInsn ==
    /\ backend = "dnfile" /\ pc = "scan" /\ i <= Len(methods)
    /\ j <= Len(Inner(methods[i]).instructions)
    /\ LET insn == Inner(methods[i]).instructions[j]
           address == insn.operand
       IN  IF ~IsCall(insn.opcode)
           THEN UNCHANGED <<calls_to, calls_from>>
           ELSE /\ calls_to' = AddCallsTo(calls_to, gen, methods, address, methods[i])
                /\ calls_from' = AddCallsFrom(calls_from, gen, methods[i], address)
    /\ j' = j + 1
    /\ UNCHANGED <<backend, sample, pc, gen, methods, cache, i, yielded, failed,
                   walked>>
    /\ UNCHANGED cacheVars

\* line 134 exhausted for this method: next iteration of line 133
DnScanNextMethod ==
    /\ backend = "dnfile" /\ pc = "scan" /\ i <= Len(methods)
    /\ j > Len(Inner(methods[i]).instructions)
    /\ i' = i + 1
    /\ j' = 1
    /\ UNCHANGED <<backend, sample, pc, gen, methods, calls_to, calls_from, cache,
                   yielded, failed, walked>>
    /\ UNCHANGED cacheVars

\* reading fh.inner.instructions of the method about to be scanned raises:
\* nothing in get_functions catches it, the generator is finished
DnScanRaise ==
    /\ backend = "dnfile" /\ pc = "scan" /\ i <= Len(methods) /\ j = 1
    /\ pc' = "raised"
    /\ failed' = Some(methods[i])
    /\ UNCHANGED <<backend, sample, gen, methods, calls_to, calls_from, cache,
                   i, j, yielded, walked>>
    /\ UNCHANGED cacheVars

\* line 133 exhausted: the pass is over, line 154 starts
DnScanDone ==
    /\ backend = "dnfile" /\ pc = "scan" /\ i > Len(methods)
    /\ pc' = "yield"
    /\ i' = 1
    /\ UNCHANGED <<backend, sample, gen, methods, calls_to, calls_from, cache,
                   j, yielded, failed, walked>>
    /\ UNCHANGED cacheVars

\* line 154: yield from methods.values(), one handle
DnYield ==
    /\ backend = "dnfile" /\ pc = "yield" /\ i <= Len(methods)
    /\ yielded' = Append(yielded, HandleId(gen, methods[i]))
    /\ i' = i + 1
    /\ walked' = NoWalk
    /\ UNCHANGED <<backend, sample, pc, gen, methods, calls_to, calls_from, cache,
                   j, failed>>
    /\ UNCHANGED cacheVars

----------------------------------------------------------------------------
(* VivisectFeatureExtractor.get_functions *)

\* lines 69-70: cache = {} and sorted(self.vw.getFunctions())
VivSort ==
    /\ backend = "viv" /\ pc = "sort"
    /\ cache' = (gen :> {}) @@ cache
    /\ methods' = Sorted([k \in 1..Len(sample) |-> sample[k].va])
    /\ pc' = "yield"
    /\ i' = 1
    /\ UNCHANGED <<backend, sample, gen, calls_to, calls_from, j, yielded, failed,
                   walked>>
    /\ UNCHANGED cacheVars

\* lines 71-75: build the handle of the next va and yield it
VivYield ==
    /\ backend = "viv" /\ pc = "yield" /\ i <= Len(methods)
    /\ yielded' = Append(yielded, HandleId(gen, methods[i]))
    /\ i' = i + 1
    /\ walked' = NoWalk
    /\ UNCHANGED <<backend, sample, pc, gen, methods, calls_to, calls_from, cache,
                   j, failed>>
    /\ UNCHANGED cacheVars

\* line 73: viv_utils.Function(self.vw, va) raises; nothing catches it
VivConstructRaise ==
    /\ backend = "viv" /\ pc = "yield" /\ i <= Len(methods)
    /\ pc' = "raised"
    /\ failed' = Some(methods[i])
    /\ walked' = NoWalk
    /\ UNCHANGED <<backend, sample, gen, methods, calls_to, calls_from, cache,
                   i, j, yielded>>
    /\ UNCHANGED cacheVars

----------------------------------------------------------------------------
(* The driver's side of the generator *)

\* next() on a generator whose loop is exhausted: StopIteration
Exhaust ==
    /\ pc = "yield" /\ i > Len(methods)
    /\ pc' = "done"
    /\ walked' = NoWalk
    /\ UNCHANGED <<backend, sample, gen, methods, calls_to, calls_from, cache,
                   i, j, yielded, failed>>
    /\ UNCHANGED cacheVars

\* the driver abandons the iteration between two yielded items
Close ==
    /\ pc = "yield" /\ i > 1 /\ i <= Len(methods)
    /\ pc' = "closed"
    /\ walked' = NoWalk
    /\ UNCHANGED <<backend, sample, gen, methods, calls_to, calls_from, cache,
                   i, j, yielded, failed>>
    /\ UNCHANGED cacheVars

----------------------------------------------------------------------------
(* Walkers *)

\* dnfile lines 159-164: one BBHandle per method
DnGetBasicBlocks(h) ==
    <<[address |-> Address(h), inner |-> Inner(Address(h))]>>

\* an offset measured from the instruction back to the start of the body
DnInsnAddress_Backwards(fhInner, bbh, insn) ==
    [token |-> bbh.address,
     offset |-> (fhInner.offset + fhInner.header_size) - insn.offset]

\* dnfile line 173: DNTokenOffsetAddress(bbh.address, insn.offset - (...))
DnInsnAddress(fhInner, bbh, insn) ==
    [token |-> bbh.address,
     offset |-> insn.offset - (fhInner.offset + fhInner.header_size)]

\* dnfile lines 170-175
DnGetInstructions(h, bbh) ==
    [k \in 1..Len(bbh.inner.instructions) |->
        [address |-> DnInsnAddress(Inner(Address(h)), bbh, bbh.inner.instructions[k]),
         inner |-> bbh.inner.instructions[k]]]

\* viv lines 80-83
VivGetBasicBlocks(h) ==
    LET f == VivFunction(Address(h))
    IN  [k \in 1..Len(f.basic_blocks) |->
            [address |-> [va |-> f.basic_blocks[k].va], inner |-> f.basic_blocks[k]]]

\* viv lines 88-91
VivGetInstructions(h, bbh) ==
    [k \in 1..Len(bbh.inner.instructions) |->
        [address |-> [va |-> bbh.inner.instructions[k].va],
         inner |-> bbh.inner.instructions[k]]]

GetBasicBlocks(h) ==
    IF backend = "dnfile" THEN DnGetBasicBlocks(h) ELSE VivGetBasicBlocks(h)

GetInstructions(h, bbh) ==
    IF backend = "dnfile" THEN DnGetInstructions(h, bbh) ELSE VivGetInstructions(h, bbh)

\* for bb in basic_blocks(f): for insn in instructions(f, bb): collect insn
WalkFunction(h) ==
    LET bbs == GetBasicBlocks(h)
    IN  Flatten([b \in 1..Len(bbs) |-> GetInstructions(h, bbs[b])])

\* the driver walks the blocks and instructions of a handle it holds
Walk ==
    /\ Suspended
    /\ \E h \in Range(yielded) :
          walked' = [fh |-> Some(Address(h)), op |-> "walk", insns |-> WalkFunction(h)]
    /\ UNCHANGED <<backend, sample, pc, gen, methods, calls_to, calls_from, cache,
                   i, j, yielded, failed>>
    /\ UNCHANGED cacheVars

\* dnfile lines 166-168: yield from []
DnExtractBasicBlockFeatures ==
    /\ backend = "dnfile" /\ Suspended
    /\ \E h \in Range(yielded) :
          walked' = [fh |-> Some(Address(h)), op |-> "extract_basic_block_features",
                     insns |-> <<>>]
    /\ UNCHANGED <<backend, sample, pc, gen, methods, calls_to, calls_from, cache,
                   i, j, yielded, failed>>
    /\ UNCHANGED cacheVars

\* viv: feature extraction on a handle stores what it computed in the
\* scratch cache of the handle's context
VivExtractFeatures ==
    /\ backend = "viv" /\ Suspended
    /\ \E h \in Range(yielded) :
          cache' = [cache EXCEPT ![h[1]] = @ \cup {"imports"}]
    /\ UNCHANGED <<backend, sample, pc, gen, methods, calls_to, calls_from,
                   i, j, yielded, failed, walked>>
    /\ UNCHANGED cacheVars

----------------------------------------------------------------------------
(* DnFileFeatureExtractorCache *)

\* the five dicts, in the order __init__ fills them (lines 58-67)
Categories == <<"imports", "native_imports", "methods", "fields", "types">>

CategoryRank(c) == CHOOSE k \in 1..Len(Categories) : Categories[k] = c

\* tokens the helpers may yield; a token outside is absent from every table
CacheTokens == 1..MaxSyms
LookupTokens == 0..MaxSyms

MetadataRows == [category : Range(Categories), token : CacheTokens]

\* rows as the five helper generators yield them, one category after another
Metadatas ==
    {m \in SeqsUpTo(MetadataRows, MaxSyms) :
        \A k \in 1..(Len(m) - 1) :
            CategoryRank(m[k].category) <= CategoryRank(m[k + 1].category)}

\* the object a helper yields for row k (a DnType or DnUnmanagedMethod)
Symbol(k) == [category |-> metadata[k].category, token |-> metadata[k].token, row |-> k]

\* lines 59, 61, 63, 65, 67: self.<category>[x.token] = x
Store(mapping, symbol) == (symbol.token :> symbol) @@ mapping

\* dict.get(token)
Get(mapping, token) == IF token \in DOMAIN mapping THEN Some(mapping[token]) ELSE None

\* a lookup that reads the wrong table
get_method_Fields(token) == Get(tcache["fields"], token)

\* lines 69-82
get_import(token) == Get(tcache["imports"], token)
get_native_import(token) == Get(tcache["native_imports"], token)
get_method(token) == Get(tcache["methods"], token)
get_field(token) == Get(tcache["fields"], token)
get_type(token) == Get(tcache["types"], token)

\* one iteration of one of the five loops of __init__
CacheStore ==
    /\ tpc = "build" /\ tk <= Len(metadata)
    /\ tcache' = [tcache EXCEPT ![metadata[tk].category] = Store(@, Symbol(tk))]
    /\ tk' = tk + 1
    /\ UNCHANGED <<metadata, tpc, lookup>>
    /\ UNCHANGED extractorVars

\* __init__ returns
CacheBuilt ==
    /\ tpc = "build" /\ tk > Len(metadata)
    /\ tpc' = "ready"
    /\ UNCHANGED <<metadata, tk, tcache, lookup>>
    /\ UNCHANGED extractorVars

Returned(category, token, result) ==
    /\ tpc = "ready"
    /\ lookup' = [category |-> category, token |-> token, result |-> result]
    /\ UNCHANGED <<metadata, tpc, tk, tcache>>
    /\ UNCHANGED extractorVars

GetImport == \E token \in LookupTokens : Returned("imports", token, get_import(token))

GetNativeImport ==
    \E token \in LookupTokens :
        Returned("native_imports", token, get_native_import(token))

GetMethod == \E token \in LookupTokens : Returned("methods", token, get_method(token))

GetField == \E token \in LookupTokens : Returned("fields", token, get_field(token))

GetType == \E token \in LookupTokens : Returned("types", token, get_type(token))

NoLookup == [category |-> "none", token |-> 0, result |-> None]

----------------------------------------------------------------------------
(* Specifications *)

CacheIdle ==
    /\ metadata = <<>>
    /\ tpc = "idle"
    /\ tk = 1
    /\ tcache = [c \in Range(Categories) |-> <<>>]
    /\ lookup = NoLookup

ExtractorIdle ==
    /\ pc = "idle"
    /\ gen = 0
    /\ methods = <<>>
    /\ calls_to = <<>>
    /\ calls_from = <<>>
    /\ cache = <<>>
    /\ i = 1
    /\ j = 1
    /\ yielded = <<>>
    /\ failed = None
    /\ walked = NoWalk

\* an extractor of either class, constructed over a loaded sample
Init ==
    /\ \/ backend = "dnfile" /\ IsDnSample(sample, InsnKinds)
       \/ backend = "viv" /\ IsVivSample(sample)
    /\ ExtractorIdle
    /\ CacheIdle

\* the only get_functions() call of a run
FirstCall == gen = 0 /\ GetFunctions

\* one enumeration of the functions of the sample, run to its end
Next ==
    \/ FirstCall
    \/ DnBuildMethod
    \/ DnBuildDone
    \/ DnScanInsn
    \/ DnScanNextMethod
    \/ DnScanRaise
    \/ DnScanDone
    \/ DnYield
    \/ VivSort
    \/ VivYield
    \/ VivConstructRaise
    \/ Exhaust

Spec == Init /\ [][Next]_vars

\* opcodes of the samples the driver specification runs on
DriverOpcodes == {"Call", "Ldftn"}

InitDriver ==
    /\ \/ /\ backend = "dnfile"
          /\ IsDnSample(sample, [opcode : DriverOpcodes, operand : OperandTokens])
       \/ backend = "viv" /\ IsVivSample(sample)
    /\ ExtractorIdle
    /\ CacheIdle

\* a driver that calls get_functions() up to MaxCalls times, continues or
\* abandons each iteration, and walks or extracts from the handles it holds
NextDriver ==
    \/ GetFunctions
    \/ DnBuildMethod
    \/ DnBuildDone
    \/ DnScanInsn
    \/ DnScanNextMethod
    \/ DnScanDone
    \/ DnYield
    \/ VivSort
    \/ VivYield
    \/ Exhaust
    \/ Close
    \/ Walk
    \/ DnExtractBasicBlockFeatures
    \/ VivExtractFeatures

SpecDriver == InitDriver /\ [][NextDriver]_vars

\* the token cache under construction, over any rows the helpers may yield
InitCache ==
    /\ backend = "dnfile"
    /\ sample = <<>>
    /\ ExtractorIdle
    /\ metadata \in Metadatas
    /\ tpc = "build"
    /\ tk = 1
    /\ tcache = [c \in Range(Categories) |-> <<>>]
    /\ lookup = NoLookup

NextCache ==
    \/ CacheStore
    \/ CacheBuilt
    \/ GetImport
    \/ GetNativeImport
    \/ GetMethod
    \/ GetField
    \/ GetType

SpecCache == InitCache /\ [][NextCache]_vars

----------------------------------------------------------------------------
(* What the sample says, read straight from the bodies *)

BodyTokens == {sample[k].token : k \in 1..Len(sample)}

FunctionVas == {sample[k].va : k \in 1..Len(sample)}

\* m1 has an instruction Call, Callvirt, Jmp or Newobj whose operand is `target`
CallSites(m1, target) ==
    {k \in 1..Len(Inner(m1).instructions) :
        /\ Inner(m1).instructions[k].opcode \in CallOpcodes
        /\ Inner(m1).instructions[k].operand = target}

HasCallSite(m1, target) == CallSites(m1, target) # {}

\* the call-graph pass of the current get_functions call is over
PassFinished == backend = "dnfile" /\ pc \in {"yield", "done", "closed"}

YieldedAddresses == {Address(yielded[k]) : k \in 1..Len(yielded)}

----------------------------------------------------------------------------
(* Claims checked under Spec *)

\* C1: dnfile get_functions: for all method bodies m1, m2 (m1 = m2 included)
\* where m1 has a Call, Callvirt, Jmp or Newobj instruction whose operand is
\* m2's token, once the call-graph pass is over m2's calls_to holds m1 and
\* m1's calls_from holds m2, for any enumeration order and any number of
\* call sites.
C1_CallEdgesRecorded ==
    PassFinished =>
        \A m1, m2 \in BodyTokens :
            HasCallSite(m1, m2) =>
                /\ m1 \in calls_to[HandleId(gen, m2)]
                /\ m2 \in calls_from[HandleId(gen, m1)]

\* the pass is over for a sample in which a method calls another one, which
\* the helper enumerated first, from two call sites
C1_Witness ==
    /\ PassFinished /\ pc = "done"
    /\ \E m1, m2 \in BodyTokens :
          /\ m1 # m2
          /\ Cardinality(CallSites(m1, m2)) >= 2
          /\ methods = <<m2, m1>>
          /\ calls_to[HandleId(gen, m2)] = {m1}

\* C2: dnfile get_functions: in every state during and after the pass, every
\* entry of every calls_to set is the address of an enumerated method body and
\* only enumerated bodies have a handle; a call to a token without a body is in
\* the caller's calls_from once the pass is over, and in no calls_to set.
C2_NoPhantomCallee ==
    backend = "dnfile" =>
        /\ DOMAIN calls_to = {HandleId(gen, m) : m \in Range(methods)}
        /\ DOMAIN calls_from = DOMAIN calls_to
        /\ Range(methods) \subseteq BodyTokens
        /\ \A h \in DOMAIN calls_to :
              /\ calls_to[h] \subseteq Range(methods)
              /\ \A t \in OperandTokens \ BodyTokens : t \notin calls_to[h]
        /\ PassFinished =>
              \A m1 \in BodyTokens :
                  \A t \in OperandTokens \ BodyTokens :
                      HasCallSite(m1, t) => t \in calls_from[HandleId(gen, m1)]

\* the pass is over for a sample with a call to an imported member and a call
\* to a MethodDef token that has no body
C2_Witness ==
    /\ PassFinished
    /\ \E m1, m2 \in BodyTokens :
          \E t \in MemberRefTokens :
              \E u \in MethodDefTokens \ BodyTokens :
                  /\ HasCallSite(m1, t)
                  /\ HasCallSite(m2, u)
                  /\ {t, u} \subseteq calls_from[HandleId(gen, m1)]
                                 \cup calls_from[HandleId(gen, m2)]

\* the sets the pass ends with, read from the bodies
FinalCallsTo(m) == {m1 \in BodyTokens : HasCallSite(m1, m)}
FinalCallsFrom(m) == {t \in OperandTokens : HasCallSite(m, t)}

\* C3: dnfile: before get_functions yields its first handle the pass has
\* scanned every instruction of every method: from the first yield on, both
\* sets of every method hold their final value.
C3_PassBeforeFirstYield ==
    (backend = "dnfile" /\ yielded # <<>>) =>
        /\ pc \in {"yield", "done", "closed"}
        /\ \A m \in BodyTokens :
              /\ HandleId(gen, m) \in DOMAIN calls_to
              /\ calls_to[HandleId(gen, m)] = FinalCallsTo(m)
              /\ calls_from[HandleId(gen, m)] = FinalCallsFrom(m)

\* the first of two handles has been yielded and it is the caller of the
\* method that is yielded after it
C3_Witness ==
    /\ backend = "dnfile" /\ pc = "yield"
    /\ Len(yielded) = 1 /\ Len(methods) = 2
    /\ methods[1] \in calls_to[HandleId(gen, methods[2])]

\* C4: in both backends the handles are yielded in ascending order of address,
\* for any order in which the library returns the functions.
C4_AscendingOrder ==
    \A a, b \in 1..Len(yielded) :
        a < b => Address(yielded[a]) < Address(yielded[b])

\* the functions of the sample, by address
SampleFunctions == IF backend = "dnfile" THEN BodyTokens ELSE FunctionVas

\* C7: when decoding one function fails, the failure is that function's only:
\* the handles of all the other functions of the sample are still yielded.
C7_SiblingsSurvive ==
    (pc = "raised" /\ failed # None) =>
        SampleFunctions \ {failed[1]} \subseteq YieldedAddresses

----------------------------------------------------------------------------
(* Claims checked under SpecDriver *)

\* the instructions of the function at `address`, as the library holds them
InstructionsOf(address) ==
    IF backend = "dnfile"
    THEN Range(Inner(address).instructions)
    ELSE UNION {Range(VivFunction(address).basic_blocks[b].instructions) :
                  b \in 1..Len(VivFunction(address).basic_blocks)}

\* order of addresses: (token, offset) pairwise for DNTokenOffsetAddress, the
\* virtual address for AbsoluteVirtualAddress
AddressLessEq(a, b) ==
    IF backend = "dnfile"
    THEN a.token < b.token \/ (a.token = b.token /\ a.offset <= b.offset)
    ELSE a.va <= b.va

\* C5: for every handle, walking basic_blocks(f) and for each block
\* instructions(f, b) visits every instruction of the function exactly once,
\* and the instruction addresses come out in non-decreasing order.
C5_WalkVisitsOnceInOrder ==
    walked.op = "walk" =>
        LET visited == [k \in 1..Len(walked.insns) |-> walked.insns[k].inner]
            addresses == [k \in 1..Len(walked.insns) |-> walked.insns[k].address]
        IN  /\ NoDuplicates(visited)
            /\ Range(visited) = InstructionsOf(walked.fh[1])
            /\ NonDecreasing(addresses, AddressLessEq)

\* a native function of two basic blocks has been walked
C5_Witness ==
    /\ backend = "viv" /\ walked.op = "walk"
    /\ Len(VivFunction(walked.fh[1]).basic_blocks) = 2
    /\ Len(walked.insns) = 2

\* C9: dnfile: once a handle has been yielded no step changes its calls_to or
\* calls_from, whatever the driver does next; the sets change only inside
\* get_functions, before the first yield of the call that built them.
C9_CallSetsWriteOnce ==
    [][backend = "dnfile" =>
          /\ \A k \in 1..Len(yielded) :
                /\ yielded[k] \in DOMAIN calls_to' /\ yielded[k] \in DOMAIN calls_from'
                /\ calls_to'[yielded[k]] = calls_to[yielded[k]]
                /\ calls_from'[yielded[k]] = calls_from[yielded[k]]
          /\ (calls_to' # calls_to \/ calls_from' # calls_from) =>
                pc \in {"build", "scan"}]_vars

\* the second call's pass is over; the driver still holds a handle of the
\* first call whose sets are not empty, and has walked a handle meanwhile
C9_Witness ==
    /\ backend = "dnfile" /\ gen = 2 /\ pc = "done"
    /\ walked.op = "walk"
    /\ \E k \in 1..Len(yielded) :
          /\ yielded[k][1] = 1
          /\ calls_to[yielded[k]] # {}
          /\ calls_from[yielded[k]] # {}

\* C10: every handle is yielded with a fresh context: dnfile handles are built
\* with empty calls_to and calls_from of their own; the scratch cache of a viv
\* handle is empty when the handle is yielded, whatever extraction ran on the
\* handles yielded before it.
C10_FreshContext ==
    [][/\ \A h \in DOMAIN calls_to' \ DOMAIN calls_to :
             calls_to'[h] = {} /\ calls_from'[h] = {}
       /\ (backend = "viv" /\ Len(yielded') > Len(yielded)) =>
             cache'[yielded'[Len(yielded')][1]] = {}]_vars

----------------------------------------------------------------------------
(* Claims checked under SpecCache *)

\* rows a < b of one category that carry the same token
DuplicateRows ==
    {<<a, b>> \in (1..Len(metadata)) \X (1..Len(metadata)) :
        /\ a < b
        /\ metadata[a].category = metadata[b].category
        /\ metadata[a].token = metadata[b].token}

\* C6: construction over metadata in which two symbols of one category share a
\* token is reported as a failure: it never completes with the cache holding
\* the later symbol in place of the earlier one.
C6_DuplicateTokenReported ==
    tpc = "ready" => DuplicateRows = {}

\* rows of `category` that carry `token`
RowsOf(category, token) ==
    {k \in 1..Len(metadata) :
        metadata[k].category = category /\ metadata[k].token = token}

\* what the latest lookup returned, against the rows the helpers yielded
LookupAnswered ==
    lookup # NoLookup =>
        IF RowsOf(lookup.category, lookup.token) = {}
        THEN lookup.result = None
        ELSE /\ lookup.result # None
             /\ lookup.result[1].category = lookup.category
             /\ lookup.result[1].token = lookup.token
             /\ lookup.result[1].row \in RowsOf(lookup.category, lookup.token)
             /\ lookup.result[1] = tcache[lookup.category][lookup.token]

\* C8: every lookup is total: it returns the symbol construction stored for
\* that token in that category, or None when it stored none, never a symbol
\* of another category; a lookup leaves the five mappings unchanged.
C8_LookupTotal ==
    [][tpc = "ready" => (tcache' = tcache /\ LookupAnswered')]_vars

\* get_method was asked for a token that only another table holds, and
\* returned None
C8_Witness ==
    /\ tpc = "ready"
    /\ lookup.category = "methods" /\ lookup.result = None
    /\ RowsOf("fields", lookup.token) # {}

====
